---------------------------- MODULE Spec2Model ----------------------------
(***************************************************************************)
(* A model of package crypt (src/crypt.go): key generation, the base58     *)
(* text form of keys, and the wire format of Encrypt / Decrypt.            *)
(*                                                                         *)
(* Byte strings are sequences over 0..255 and keep the lengths of the      *)
(* code (KeySize, NonceSize).  Texts are sequences of one-character        *)
(* strings.  The three collaborators the package imports are modelled by   *)
(* what they compute:                                                      *)
(*   - base58 is the real positional conversion (leading zero bytes map    *)
(*     to leading '1' characters);                                         *)
(*   - nacl/box is a Diffie-Hellman key agreement in a small prime-order   *)
(*     group followed by a stream cipher and a polynomial one-time         *)
(*     authenticator, tag first, as box.Seal lays its output out;          *)
(*   - crypto/rand hands out blocks of a bounded family and never hands    *)
(*     out the same block twice (the idealisation of a secure source).     *)
(***************************************************************************)
EXTENDS Integers, Sequences, FiniteSets, TLC

\* src/crypt.go:15
KeySize == 32
\* src/crypt.go:17
NonceSize == 24
\* box.Overhead: the length of the authenticator box.Seal puts in front
Overhead == 16

\* Bounds of the model: how many blocks the random source hands out in a
\* run, and the longest plaintext.
MaxSeed == 4
MaxLen == 2

(***************************************************************************)
(* Go's slices and arrays.                                                 *)
(***************************************************************************)
Zeros(n) == [i \in 1..n |-> 0]

\* data[from:] with a 0-based offset
SliceFrom(data, from) == SubSeq(data, from + 1, Len(data))

\* data[:to]
SliceTo(data, to) == SubSeq(data, 1, to)

\* copy(dst[at:], src): overwrites min(len(dst) - at, len(src)) bytes
Copy(dst, at, src) ==
    LET n == IF Len(dst) - at < Len(src) THEN Len(dst) - at ELSE Len(src)
    IN  SubSeq(dst, 1, at) \o SubSeq(src, 1, n) \o SubSeq(dst, at + n + 1, Len(dst))

Reverse(s) == [i \in 1..Len(s) |-> s[Len(s) + 1 - i]]

(***************************************************************************)
(* base58 (github.com/mr-tron/base58, Bitcoin alphabet).                   *)
(* Numbers are little-endian digit sequences without high zero digits.     *)
(* The loops of the conversion are written as balanced recursions over     *)
(* index ranges: the carry runs through the digits from low to high as in  *)
(* the schoolbook loop.  Each recursion looks at its carry or accumulator  *)
(* first (carry < 0, Len(acc) < 0, both never true), which makes TLC       *)
(* evaluate the left half before it descends into the right half.          *)
(***************************************************************************)
Alphabet ==
    << "1", "2", "3", "4", "5", "6", "7", "8", "9",
       "A", "B", "C", "D", "E", "F", "G", "H", "J", "K", "L", "M", "N",
       "P", "Q", "R", "S", "T", "U", "V", "W", "X", "Y", "Z",
       "a", "b", "c", "d", "e", "f", "g", "h", "i", "j", "k", "m", "n",
       "o", "p", "q", "r", "s", "t", "u", "v", "w", "x", "y", "z" >>

Radix == Len(Alphabet)

\* the digit value of a character, -1 for a character outside the alphabet
DigitOf(ch) ==
    IF \E d \in 1..Radix : Alphabet[d] = ch
        THEN (CHOOSE d \in 1..Radix : Alphabet[d] = ch) - 1
        ELSE -1

RECURSIVE LeadingCount(_, _, _)
\* how many elements equal to v the sequence s starts with, from index i on
LeadingCount(s, v, i) ==
    IF i > Len(s) \/ s[i] # v THEN 0 ELSE 1 + LeadingCount(s, v, i + 1)

RECURSIVE CarryDigits(_, _)
\* the digits of a left-over carry, low digit first
CarryDigits(c, base) ==
    IF c = 0 THEN <<>> ELSE <<c % base>> \o CarryDigits(c \div base, base)

RECURSIVE MulAddRange(_, _, _, _, _, _)
\* digits d[lo..hi] times mul plus a carry in: the new digits and the carry out
MulAddRange(d, lo, hi, mul, carry, base) ==
    IF lo > hi \/ carry < 0 THEN [out |-> <<>>, c |-> carry]
    ELSE IF lo = hi
        THEN LET v == d[lo] * mul + carry
             IN  [out |-> <<v % base>>, c |-> v \div base]
        ELSE LET mid == (lo + hi) \div 2
                 L == MulAddRange(d, lo, mid, mul, carry, base)
                 R == MulAddRange(d, mid + 1, hi, mul, L.c, base)
             IN  [out |-> L.out \o R.out, c |-> R.c]

\* the number d times mul plus add, in the same base
MulAdd(d, mul, add, base) ==
    LET r == MulAddRange(d, 1, Len(d), mul, add, base)
    IN  r.out \o CarryDigits(r.c, base)

RECURSIVE Rebase(_, _, _, _, _, _)
\* acc * from^(hi-lo+1) + the big-endian digits s[lo..hi] of base from,
\* as little-endian digits of base to
Rebase(s, lo, hi, from, to, acc) ==
    IF lo > hi \/ Len(acc) < 0 THEN acc
    ELSE IF lo = hi THEN MulAdd(acc, from, s[lo], to)
    ELSE LET mid == (lo + hi) \div 2
         IN  Rebase(s, mid + 1, hi, from, to, Rebase(s, lo, mid, from, to, acc))

\* base58.Encode
Base58Encode(bytes) ==
    LET zcount == LeadingCount(bytes, 0, 1)
        digits == Rebase(bytes, zcount + 1, Len(bytes), 256, Radix, <<>>)
    IN  [i \in 1..zcount |-> Alphabet[1]]
            \o [i \in 1..Len(digits) |-> Alphabet[digits[Len(digits) + 1 - i] + 1]]

\* base58.Decode: [ok, bytes]
Base58Decode(str) ==
    IF Len(str) = 0 \/ \E i \in 1..Len(str) : DigitOf(str[i]) < 0
        THEN [ok |-> FALSE, bytes |-> <<>>]
        ELSE LET zcount == LeadingCount(str, Alphabet[1], 1)
                 vals == [i \in 1..Len(str) |-> DigitOf(str[i])]
                 num == Rebase(vals, zcount + 1, Len(vals), Radix, 256, <<>>)
             IN  [ok |-> TRUE, bytes |-> Zeros(zcount) \o Reverse(num)]

(***************************************************************************)
(* crypto/rand.  The s-th read of a run, of n bytes, gives the block        *)
(* RandBlock(n, s): no two reads give the same bytes.  The first block     *)
(* starts with a zero byte.                                                *)
(***************************************************************************)

RandBlock(n, s) ==
    [i \in 1..n |-> IF i = 1 THEN (s - 1) * 85 % 256 ELSE (s * 37 + i * (2 * s + 9)) % 256]

(***************************************************************************)
(* golang.org/x/crypto/nacl/box.  Keys are 32 bytes, read little-endian.   *)
(* The group is the subgroup of prime order GroupQ of the integers modulo  *)
(* the prime GroupP = 2 * GroupQ + 1, generated by GroupG; a secret is the  *)
(* exponent 1 + (bytes mod (GroupQ - 1)), never 0.                          *)
(***************************************************************************)
GroupP == 227
GroupQ == 113
GroupG == 4
\* the modulus of the authenticator's polynomial
MacP == 251

RECURSIVE LittleEndianMod(_, _, _, _)
\* the little-endian number bytes[i..n] modulo m, two bytes at a time
LittleEndianMod(bytes, i, n, m) ==
    IF i > n THEN 0
    ELSE IF i = n THEN bytes[i] % m
    ELSE (bytes[i] + 256 * bytes[i + 1]
            + 65536 * LittleEndianMod(bytes, i + 2, n, m)) % m

\* the number a byte string stands for, modulo m
NumberMod(bytes, m) == LittleEndianMod(bytes, 1, Len(bytes), m)

RECURSIVE ModExp(_, _, _)
ModExp(b, e, m) ==
    IF e = 0 THEN 1
    ELSE LET h == ModExp(b, e \div 2, m)
             sq == (h * h) % m
         IN  IF e % 2 = 1 THEN (sq * b) % m ELSE sq

\* A degenerate key agreement in which every secret is the same exponent:
\* all public keys coincide, so any key opens any message.
ScalarOne(priv) == 1 + NumberMod(priv, 1)

Scalar(priv) == 1 + NumberMod(priv, GroupQ - 1)

\* a group element as a 32-byte public key
PointBytes(x) == [i \in 1..KeySize |-> IF i = 1 THEN x ELSE 0]

\* curve25519.ScalarBaseMult: the public key of a secret
ScalarBaseMult(priv) == PointBytes(ModExp(GroupG, Scalar(priv), GroupP))

\* box.Precompute: the key the two parties share
SharedKey(pub, priv) == ModExp(NumberMod(pub, GroupP), Scalar(priv), GroupP)

RECURSIVE XorBits(_, _, _)
XorBits(a, b, n) ==
    IF n = 0 THEN 0
    ELSE ((a + b) % 2) + 2 * XorBits(a \div 2, b \div 2, n - 1)

Xor(a, b) == XorBits(a, b, 8)

\* byte j of the key stream of (k, nonce)
KeyStream(k, nonce, j) ==
    (k * 31 + nonce[((j - 1) % NonceSize) + 1] * 7 + nonce[NonceSize] + j * 13) % 256

Crypt(k, nonce, msg) == [j \in 1..Len(msg) |-> Xor(msg[j], KeyStream(k, nonce, j))]

RECURSIVE Poly(_, _, _)
\* sum of (c[j] + 1) * r^j over j in 1..i, modulo MacP
Poly(c, i, r) ==
    IF i = 0 THEN 0 ELSE (((Poly(c, i - 1, r) + c[i] + 1) % MacP) * r) % MacP

\* the authenticator of the cipher text c under (k, nonce): the polynomial
\* of c at a point derived from the key, plus a pad derived from key and nonce
Tag(k, nonce, c) ==
    LET t == Poly(Reverse(c), Len(c), 1 + (k % (MacP - 1)))
    IN  [i \in 1..Overhead |->
            ((2 * i + 1) * k + nonce[i] + (IF i = 1 THEN t ELSE 0)) % 256]

\* box.Seal(nil, msg, &nonce, &pub, &priv): authenticator, then cipher text
Seal(msg, nonce, pub, priv) ==
    LET k == SharedKey(pub, priv)
        c == Crypt(k, nonce, msg)
    IN  Tag(k, nonce, c) \o c

\* box.Open(nil, sealed, &nonce, &pub, &priv): [ok, opened]
Open(sealed, nonce, pub, priv) ==
    IF Len(sealed) < Overhead THEN [ok |-> FALSE, opened |-> <<>>]
    ELSE LET k == SharedKey(pub, priv)
             c == SubSeq(sealed, Overhead + 1, Len(sealed))
         IN  IF SubSeq(sealed, 1, Overhead) = Tag(k, nonce, c)
                 THEN [ok |-> TRUE, opened |-> Crypt(k, nonce, c)]
                 ELSE [ok |-> FALSE, opened |-> <<>>]

\* box.GenerateKey(rand.Reader), given the block the source hands out
GenerateKey(block) == [pub |-> ScalarBaseMult(block), priv |-> block]

(***************************************************************************)
(* Package crypt: the functions of src/crypt.go.  A result is a record;     *)
(* err = NoErr stands for a nil error, Nil for a nil slice.                 *)
(***************************************************************************)
NoErr == ""
Nil == <<>>
ErrRand == "rand: read failed"
ErrBase58 == "base58: decode failed"
ErrInvalidKey == "invalid key"
ErrExpectedPublicKey == "invalid message: expected public key"
ErrExpectedNonce == "invalid message: expected nonce"
ErrOpenFailed == "invalid message: nacl box open failed"
ErrYAML == "yaml: unmarshal failed"

\* var key PrivateKey
ZeroPrivateKey == Zeros(KeySize * 2)
\* PublicKey{}
ZeroPublicKey == Zeros(KeySize)

\* Generate, given what the read of the random source gives:
\* [ok |-> FALSE] or [ok |-> TRUE, block |-> 32 bytes]
Generate(rnd) ==
    IF ~rnd.ok THEN [key |-> ZeroPrivateKey, err |-> ErrRand]
    ELSE LET kp == GenerateKey(rnd.block)
         IN  [key |-> Copy(Copy(ZeroPrivateKey, 0, kp.priv), KeySize, kp.pub),
              err |-> NoErr]

\* NewPrivateKey without the length test of line 45.
NewPrivateKeyAnyLength(str) ==
    LET dec == Base58Decode(str)
    IN  IF ~dec.ok THEN [key |-> ZeroPrivateKey, err |-> ErrBase58]
        ELSE [key |-> Copy(ZeroPrivateKey, 0, dec.bytes), err |-> NoErr]

NewPrivateKey(str) ==
    LET dec == Base58Decode(str)
    IN  IF ~dec.ok THEN [key |-> ZeroPrivateKey, err |-> ErrBase58]
        ELSE IF Len(dec.bytes) # KeySize
            THEN [key |-> ZeroPrivateKey, err |-> ErrInvalidKey]
            ELSE [key |-> Copy(ZeroPrivateKey, 0, dec.bytes), err |-> NoErr]

\* Decrypt with a single length test in place of those of lines 57 and 65.
DecryptOneLengthTest(key, data) ==
    LET priv == Copy(Zeros(KeySize), 0, key)
    IN  IF Len(data) < KeySize + NonceSize
            THEN [pub |-> ZeroPublicKey, plain |-> Nil, err |-> ErrExpectedPublicKey]
        ELSE LET pub == Copy(Zeros(KeySize), 0, data)
                 nonce == Copy(Zeros(NonceSize), 0, SliceFrom(data, KeySize))
                 res == Open(SliceFrom(data, KeySize + NonceSize), nonce, pub, priv)
             IN  IF ~res.ok
                     THEN [pub |-> pub, plain |-> Nil, err |-> ErrOpenFailed]
                     ELSE [pub |-> pub, plain |-> res.opened, err |-> NoErr]

\* Decrypt without the test of line 74: what box.Open returns is passed on.
DecryptIgnoresOpen(key, data) ==
    LET priv == Copy(Zeros(KeySize), 0, key)
    IN  IF Len(data) < KeySize
            THEN [pub |-> ZeroPublicKey, plain |-> Nil, err |-> ErrExpectedPublicKey]
        ELSE LET pub == Copy(Zeros(KeySize), 0, data)
                 data1 == SliceFrom(data, KeySize)
             IN  IF Len(data1) < NonceSize
                     THEN [pub |-> pub, plain |-> Nil, err |-> ErrExpectedNonce]
                 ELSE LET nonce == Copy(Zeros(NonceSize), 0, data1)
                          data2 == SliceFrom(data1, NonceSize)
                          res == Open(data2, nonce, pub, priv)
                      IN  [pub |-> pub, plain |-> res.opened, err |-> NoErr]

Decrypt(key, data) ==
    LET priv == Copy(Zeros(KeySize), 0, key)
    IN  IF Len(data) < KeySize
            THEN [pub |-> ZeroPublicKey, plain |-> Nil, err |-> ErrExpectedPublicKey]
        ELSE LET pub == Copy(Zeros(KeySize), 0, data)
                 data1 == SliceFrom(data, KeySize)
             IN  IF Len(data1) < NonceSize
                     THEN [pub |-> pub, plain |-> Nil, err |-> ErrExpectedNonce]
                 ELSE LET nonce == Copy(Zeros(NonceSize), 0, data1)
                          data2 == SliceFrom(data1, NonceSize)
                          res == Open(data2, nonce, pub, priv)
                      IN  IF ~res.ok
                              THEN [pub |-> pub, plain |-> Nil, err |-> ErrOpenFailed]
                              ELSE [pub |-> pub, plain |-> res.opened, err |-> NoErr]

\* generateNonce that leaves the nonce as declared on line 177, all zero.
generateNonceUnread(rnd) ==
    IF ~rnd.ok THEN [panic |-> TRUE, nonce |-> Zeros(NonceSize)]
    ELSE [panic |-> FALSE, nonce |-> Zeros(NonceSize)]

\* generateNonce, given what the read of the random source gives; it
\* panics when the read fails
generateNonce(rnd) ==
    IF ~rnd.ok THEN [panic |-> TRUE, nonce |-> Zeros(NonceSize)]
    ELSE [panic |-> FALSE, nonce |-> Copy(Zeros(NonceSize), 0, rnd.block)]

\* Encrypt that puts the peer's public key in front instead of the sender's.
EncryptPeerKeyFirst(key, peersPublicKey, data, rnd) ==
    LET priv == Copy(Zeros(KeySize), 0, SliceTo(key, KeySize))
        pub == Copy(Zeros(KeySize), 0, peersPublicKey)
        gen == generateNonce(rnd)
        sealed == Seal(data, gen.nonce, pub, priv)
    IN  IF gen.panic THEN [panic |-> TRUE, nonce |-> gen.nonce, out |-> Nil]
        ELSE [panic |-> FALSE, nonce |-> gen.nonce,
              out |-> pub \o gen.nonce \o sealed]

\* Encrypt that appends the nonce before the public key.
EncryptNonceFirst(key, peersPublicKey, data, rnd) ==
    LET priv == Copy(Zeros(KeySize), 0, SliceTo(key, KeySize))
        pub == Copy(Zeros(KeySize), 0, peersPublicKey)
        gen == generateNonce(rnd)
        sealed == Seal(data, gen.nonce, pub, priv)
    IN  IF gen.panic THEN [panic |-> TRUE, nonce |-> gen.nonce, out |-> Nil]
        ELSE [panic |-> FALSE, nonce |-> gen.nonce,
              out |-> gen.nonce \o SliceFrom(key, KeySize) \o sealed]

\* Encrypt, given what generateNonce reads: [panic, nonce, out]
Encrypt(key, peersPublicKey, data, rnd) ==
    LET priv == Copy(Zeros(KeySize), 0, SliceTo(key, KeySize))
        pub == Copy(Zeros(KeySize), 0, peersPublicKey)
        gen == generateNonce(rnd)
        sealed == Seal(data, gen.nonce, pub, priv)
    IN  IF gen.panic THEN [panic |-> TRUE, nonce |-> gen.nonce, out |-> Nil]
        ELSE [panic |-> FALSE, nonce |-> gen.nonce,
              out |-> SliceFrom(key, KeySize) \o gen.nonce \o sealed]

\* PrivateKey.PublicKey
PublicKey(key) == Copy(ZeroPublicKey, 0, SliceFrom(key, KeySize))

\* PrivateKey.String
PrivateKeyString(key) == Base58Encode(key)

\* PublicKey.String that encodes the key twice over, 64 bytes as
\* PrivateKey.String does.
PublicKeyStringDouble(key) == Base58Encode(key \o key)

\* PublicKey.String
PublicKeyString(key) == Base58Encode(key)

NewPublicKey(str) ==
    LET dec == Base58Decode(str)
    IN  IF ~dec.ok THEN [key |-> ZeroPublicKey, err |-> ErrBase58]
        ELSE IF Len(dec.bytes) # KeySize
            THEN [key |-> ZeroPublicKey, err |-> ErrInvalidKey]
            ELSE [key |-> Copy(ZeroPublicKey, 0, dec.bytes), err |-> NoErr]

\* PrivateKey.MarshalYAML
PrivateKeyMarshalYAML(key) == [value |-> PrivateKeyString(key), err |-> NoErr]

\* PublicKey.MarshalYAML
PublicKeyMarshalYAML(key) == [value |-> PublicKeyString(key), err |-> NoErr]

\* (*PrivateKey).UnmarshalYAML: key is *key before the call, node what
\* unmarshal(&str) gives: [ok |-> FALSE] or [ok |-> TRUE, str |-> text].
\* The result holds *key after the call.
PrivateKeyUnmarshalYAML(key, node) ==
    IF ~node.ok THEN [key |-> key, err |-> ErrYAML]
    ELSE NewPrivateKey(node.str)

\* (*PublicKey).UnmarshalYAML
PublicKeyUnmarshalYAML(key, node) ==
    IF ~node.ok THEN [key |-> key, err |-> ErrYAML]
    ELSE NewPublicKey(node.str)

(***************************************************************************)
(* The state: a caller of the package, the random source and a message in  *)
(* transit.                                                                *)
(*   drawn      how many blocks the random source has handed out           *)
(*   generated  the private keys Generate has returned                     *)
(*   wire       the message in transit: the latest Encrypt call (sender,   *)
(*              peer, plain, nonce, out) and, when the Encrypt call before *)
(*              it had the same sender, peer and plaintext and its message *)
(*              was still in transit, that call's output (before)          *)
(*   last       the latest call of the package and what it returned        *)
(*   panicked   generateNonce has panicked: the process is gone            *)
(***************************************************************************)
VARIABLES drawn, generated, wire, last, panicked

vars == <<drawn, generated, wire, last, panicked>>

NoWire ==
    [sender |-> Nil, peer |-> Nil, plain |-> Nil, nonce |-> Nil, out |-> Nil,
     before |-> Nil, present |-> FALSE]

\* what a read of n bytes from the random source can give: an error, or
\* the next block
Reads(n) ==
    {[ok |-> FALSE, block |-> Nil]}
        \cup (IF drawn < MaxSeed
                THEN {[ok |-> TRUE, block |-> RandBlock(n, drawn + 1)]} ELSE {})

\* the message of the package's test, "Hello World"
HelloWorld == <<72, 101, 108, 108, 111, 32, 87, 111, 114, 108, 100>>

\* the plaintexts a caller sends: the beginnings of the test's message
Plaintexts == {SliceTo(HelloWorld, n) : n \in 0..MaxLen}

\* texts that come from outside: the empty text, a text with characters
\* outside the alphabet, the text of 10 bytes, the text of 32 bytes
TextEmpty == <<>>
TextNotBase58 ==
    << "n", "o", "t", "-", "v", "a", "l", "i", "d", "-",
       "b", "a", "s", "e", "5", "8", "!", "!" >>
TextOf10Bytes ==
    << "4", "H", "U", "t", "b", "H", "h", "N", "2", "T", "k", "p", "R" >>
TextOf32Bytes ==
    << "1", "V", "W", "k", "T", "t", "Z", "R", "X", "W", "p", "P", "3", "k",
       "b", "1", "e", "x", "d", "7", "y", "U", "U", "a", "Z", "Z", "R", "1",
       "Y", "j", "D", "j", "t", "K", "S", "4", "o", "w", "k", "Y", "X", "q",
       "f" >>
ForeignTexts == {TextEmpty, TextNotBase58, TextOf10Bytes, TextOf32Bytes}

TextOps ==
    {"PrivateKey.String", "PublicKey.String",
     "PrivateKey.MarshalYAML", "PublicKey.MarshalYAML"}
PrivateKeyOps == {"NewPrivateKey", "PrivateKey.UnmarshalYAML"}
PublicKeyOps == {"NewPublicKey", "PublicKey.UnmarshalYAML"}

\* the texts a caller can pass: a foreign one, or the one the latest call
\* returned; of is the key the text was made from (Nil for a foreign text)
TextInputs ==
    {[text |-> t, of |-> Nil] : t \in ForeignTexts}
        \cup (IF last.op \in TextOps /\ last.err = NoErr
                THEN {[text |-> last.text, of |-> last.of]} ELSE {})

\* the private key a caller has at hand for the text operations: the one
\* the latest call returned
HeldKeys ==
    IF last.op \in {"Generate"} \cup PrivateKeyOps /\ last.err = NoErr
        THEN {last.key} ELSE {}

\* the public key a caller has at hand for the text operations: the one of
\* the private key at hand, or the one the latest call returned
HeldPublicKeys ==
    {PublicKey(k) : k \in HeldKeys}
        \cup (IF last.op \in {"PrivateKey.PublicKey"} \cup PublicKeyOps /\ last.err = NoErr
                THEN {last.key} ELSE {})

\* the public keys a sender can address: those of the generated keys
Peers == {PublicKey(k) : k \in generated}

Init ==
    /\ drawn = 0
    /\ generated = {}
    /\ wire = NoWire
    /\ last = [op |-> "none", err |-> NoErr]
    /\ panicked = FALSE

\* A run goes as the package's Test does: the keys are generated first,
\* then messages are encrypted, then the message in transit is decrypted.
CallGenerate ==
    /\ ~panicked
    /\ ~wire.present
    /\ last.op # "Decrypt"
    /\ \E rnd \in Reads(KeySize) :
        LET r == Generate(rnd)
        IN  /\ drawn' = IF rnd.ok THEN drawn + 1 ELSE drawn
            /\ generated' = IF r.err = NoErr THEN generated \cup {r.key} ELSE generated
            /\ last' = [op |-> "Generate", key |-> r.key, err |-> r.err]
    /\ UNCHANGED <<wire, panicked>>

CallNewPrivateKey ==
    /\ ~panicked
    /\ \E in \in TextInputs :
        LET r == NewPrivateKey(in.text)
        IN  last' = [op |-> "NewPrivateKey", str |-> in.text, of |-> in.of,
                     key |-> r.key, err |-> r.err]
    /\ UNCHANGED <<drawn, generated, wire, panicked>>

CallNewPublicKey ==
    /\ ~panicked
    /\ \E in \in TextInputs :
        LET r == NewPublicKey(in.text)
        IN  last' = [op |-> "NewPublicKey", str |-> in.text, of |-> in.of,
                     key |-> r.key, err |-> r.err]
    /\ UNCHANGED <<drawn, generated, wire, panicked>>

CallPrivateKeyString ==
    /\ ~panicked
    /\ \E key \in HeldKeys :
        last' = [op |-> "PrivateKey.String", of |-> key,
                 text |-> PrivateKeyString(key), err |-> NoErr]
    /\ UNCHANGED <<drawn, generated, wire, panicked>>

CallPublicKeyString ==
    /\ ~panicked
    /\ \E key \in HeldPublicKeys :
        last' = [op |-> "PublicKey.String", of |-> key,
                 text |-> PublicKeyString(key), err |-> NoErr]
    /\ UNCHANGED <<drawn, generated, wire, panicked>>

CallPrivateKeyMarshalYAML ==
    /\ ~panicked
    /\ \E key \in HeldKeys :
        LET r == PrivateKeyMarshalYAML(key)
        IN  last' = [op |-> "PrivateKey.MarshalYAML", of |-> key,
                     text |-> r.value, err |-> r.err]
    /\ UNCHANGED <<drawn, generated, wire, panicked>>

CallPublicKeyMarshalYAML ==
    /\ ~panicked
    /\ \E key \in HeldPublicKeys :
        LET r == PublicKeyMarshalYAML(key)
        IN  last' = [op |-> "PublicKey.MarshalYAML", of |-> key,
                     text |-> r.value, err |-> r.err]
    /\ UNCHANGED <<drawn, generated, wire, panicked>>

\* what unmarshal(&str) can give
Nodes == {[ok |-> FALSE, str |-> <<>>, of |-> Nil]}
            \cup {[ok |-> TRUE, str |-> in.text, of |-> in.of] : in \in TextInputs}

CallPrivateKeyUnmarshalYAML ==
    /\ ~panicked
    /\ \E key \in {ZeroPrivateKey} \cup HeldKeys, node \in Nodes :
        LET r == PrivateKeyUnmarshalYAML(key, node)
        IN  last' = [op |-> "PrivateKey.UnmarshalYAML", str |-> node.str,
                     of |-> node.of, key |-> r.key, err |-> r.err]
    /\ UNCHANGED <<drawn, generated, wire, panicked>>

CallPublicKeyUnmarshalYAML ==
    /\ ~panicked
    /\ \E key \in {ZeroPublicKey} \cup HeldPublicKeys, node \in Nodes :
        LET r == PublicKeyUnmarshalYAML(key, node)
        IN  last' = [op |-> "PublicKey.UnmarshalYAML", str |-> node.str,
                     of |-> node.of, key |-> r.key, err |-> r.err]
    /\ UNCHANGED <<drawn, generated, wire, panicked>>

CallPublicKey ==
    /\ ~panicked
    /\ \E key \in HeldKeys :
        last' = [op |-> "PrivateKey.PublicKey", of |-> key,
                 key |-> PublicKey(key), err |-> NoErr]
    /\ UNCHANGED <<drawn, generated, wire, panicked>>

\* a generated key encrypts a plaintext for the public key of a generated
\* key; the message replaces the one in transit
CallEncrypt ==
    /\ ~panicked
    /\ last.op # "Decrypt"
    /\ \E key \in generated, peer \in Peers, data \in Plaintexts,
          rnd \in Reads(NonceSize) :
        LET r == Encrypt(key, peer, data, rnd)
        IN  /\ drawn' = IF rnd.ok THEN drawn + 1 ELSE drawn
            /\ panicked' = r.panic
            /\ last' = [op |-> "Encrypt", key |-> key, peer |-> peer,
                        data |-> data, out |-> r.out, err |-> NoErr]
            /\ wire' =
                IF r.panic THEN wire
                ELSE [sender |-> key, peer |-> peer, plain |-> data,
                      nonce |-> r.nonce, out |-> r.out,
                      before |->
                        IF /\ wire.present
                           /\ wire.sender = key
                           /\ wire.peer = peer
                           /\ wire.plain = data
                            THEN wire.out ELSE Nil,
                      present |-> TRUE]
    /\ UNCHANGED generated

\* the lengths a message in transit can be cut to
CutLengths ==
    {0, 10, KeySize - 1, KeySize, 40, KeySize + NonceSize - 1, KeySize + NonceSize,
     KeySize + NonceSize + Overhead - 1}

\* the byte v with bit b flipped
FlipBit(v, b) ==
    LET w == 2 ^ b
    IN  IF (v \div w) % 2 = 1 THEN v - w ELSE v + w

\* what can arrive of the message out: out itself, out cut short, or out
\* with one bit of its sealed region (offset KeySize + NonceSize on) flipped
Arrivals(out) ==
    {[how |-> "intact", data |-> out]}
        \cup {[how |-> "truncated", data |-> SliceTo(out, n)] :
                n \in {c \in CutLengths : c < Len(out)}}
        \cup {[how |-> "flipped", data |-> [out EXCEPT ![i] = FlipBit(out[i], b)]] :
                i \in (KeySize + NonceSize + 1)..Len(out), b \in 0..7}

\* the message in transit arrives, intact or not, and a generated key
\* decrypts it; this ends the run
CallDecrypt ==
    /\ ~panicked
    /\ wire.present
    /\ \E key \in generated, in \in Arrivals(wire.out) :
        LET r == Decrypt(key, in.data)
        IN  last' = [op |-> "Decrypt", key |-> key, sent |-> wire, how |-> in.how,
                     len |-> Len(in.data), pub |-> r.pub, plain |-> r.plain,
                     err |-> r.err]
    /\ wire' = NoWire
    /\ UNCHANGED <<drawn, generated, panicked>>

\* keys, messages and their transit
Next ==
    \/ CallGenerate
    \/ CallEncrypt
    \/ CallDecrypt

Spec == Init /\ [][Next]_vars

\* keys and their text form
TextNext ==
    \/ CallGenerate
    \/ CallPublicKey
    \/ CallPrivateKeyString
    \/ CallPublicKeyString
    \/ CallNewPrivateKey
    \/ CallNewPublicKey
    \/ CallPrivateKeyMarshalYAML
    \/ CallPublicKeyMarshalYAML
    \/ CallPrivateKeyUnmarshalYAML
    \/ CallPublicKeyUnmarshalYAML

TextSpec == Init /\ [][TextNext]_vars

(***************************************************************************)
(* The claims.  Those about messages are stated over Spec, those about the *)
(* text form of keys over TextSpec.                                        *)
(***************************************************************************)

\* the latest call was a Decrypt of the message as it was sent
DeliveredIntact == last.op = "Decrypt" /\ last.how = "intact"

\* C1: when a generated key B decrypts, unmodified, what a generated key A
\* encrypted for B's public key, Decrypt returns no error, A's public key
\* and the plaintext that was encrypted (the empty one included).
C1_RoundTrip ==
    (DeliveredIntact /\ last.sent.peer = PublicKey(last.key))
        => /\ last.err = NoErr
           /\ last.pub = PublicKey(last.sent.sender)
           /\ last.plain = last.sent.plain

\* a round trip between two different keys with the longest plaintext
C1_Witness ==
    /\ DeliveredIntact
    /\ last.sent.peer = PublicKey(last.key)
    /\ last.sent.sender # last.key
    /\ last.sent.plain = SliceTo(HelloWorld, MaxLen)
    /\ last.plain = last.sent.plain
    /\ last.err = NoErr

\* C2: NewPrivateKey of the text form of a generated private key returns no
\* error and the same 64 bytes.
C2_PrivateKeyTextRoundTrip ==
    (last.op = "NewPrivateKey" /\ last.of \in generated)
        => /\ last.err = NoErr
           /\ last.key = last.of

\* C3: the output of Encrypt is the sender's cached public half (bytes
\* 32..63 of the key) at offsets 0..31, the nonce at offsets 32..55 and,
\* from offset 56 to the end, what box.Seal gives for the plaintext under
\* that nonce, the peer's public key and the sender's secret half; nothing
\* else.
C3_WireFormat ==
    wire.present
        => /\ Len(wire.out) = KeySize + NonceSize + Overhead + Len(wire.plain)
           /\ SubSeq(wire.out, 1, KeySize) = SubSeq(wire.sender, KeySize + 1, 2 * KeySize)
           /\ SubSeq(wire.out, KeySize + 1, KeySize + NonceSize) = wire.nonce
           /\ SubSeq(wire.out, KeySize + NonceSize + 1, Len(wire.out))
                = Seal(wire.plain, wire.nonce, wire.peer, SubSeq(wire.sender, 1, KeySize))

\* a message with the longest plaintext, for another key than the sender's
C3_Witness ==
    /\ wire.present
    /\ wire.plain = SliceTo(HelloWorld, MaxLen)
    /\ wire.peer # PublicKey(wire.sender)
    /\ Len(wire.out) = KeySize + NonceSize + Overhead + MaxLen

\* C4: Decrypt of fewer than 32 bytes fails with "expected public key", of
\* 32 to 55 bytes with the different error "expected nonce", both without a
\* plaintext; of 56 bytes or more it gives neither of the two errors.
C4_Truncation ==
    /\ ErrExpectedPublicKey # ErrExpectedNonce
    /\ last.op = "Decrypt"
        => /\ last.len < KeySize
                => last.err = ErrExpectedPublicKey /\ last.plain = Nil
           /\ (KeySize <= last.len /\ last.len < KeySize + NonceSize)
                => last.err = ErrExpectedNonce /\ last.plain = Nil
           /\ last.len >= KeySize + NonceSize
                => last.err \notin {ErrExpectedPublicKey, ErrExpectedNonce}

\* a message cut to 40 bytes: past the public key, short of the nonce
C4_Witness ==
    /\ last.op = "Decrypt"
    /\ last.how = "truncated"
    /\ last.len = 40
    /\ last.err = ErrExpectedNonce

\* C5: when one bit of the sealed region (offset 56 on) of a message for B
\* is flipped, B's Decrypt fails with "nacl box open failed" and returns no
\* plaintext.
C5_TamperDetection ==
    (last.op = "Decrypt" /\ last.how = "flipped" /\ last.sent.peer = PublicKey(last.key))
        => /\ last.err = ErrOpenFailed
           /\ last.plain = Nil

\* a flipped bit in a message that carries the longest plaintext
C5_Witness ==
    /\ last.op = "Decrypt"
    /\ last.how = "flipped"
    /\ last.sent.peer = PublicKey(last.key)
    /\ last.sent.plain = SliceTo(HelloWorld, MaxLen)
    /\ last.err = ErrOpenFailed

\* C6: when a generated key B decrypts, unmodified, what was encrypted for
\* the public key of another generated key C, Decrypt fails with "nacl box
\* open failed" and returns no plaintext.
C6_CrossKeyRejection ==
    (/\ DeliveredIntact
     /\ \E c \in generated : c # last.key /\ PublicKey(c) = last.sent.peer)
        => /\ last.err = ErrOpenFailed
           /\ last.plain = Nil

\* sender, addressee and receiver are three different keys
C6_Witness ==
    /\ DeliveredIntact
    /\ \E c \in generated :
        /\ c # last.key
        /\ c # last.sent.sender
        /\ PublicKey(c) = last.sent.peer
    /\ last.sent.sender # last.key
    /\ last.sent.plain # Nil
    /\ last.err = ErrOpenFailed

\* the operations that return a PrivateKey
PrivateKeySources == {"Generate"} \cup PrivateKeyOps

\* C7: every PrivateKey that Generate, NewPrivateKey or UnmarshalYAML
\* returns without error has as its cached public half (bytes 32..63, what
\* PublicKey() returns) the public key derived from its secret half (bytes
\* 0..31).
C7_PrivateKeyConsistent ==
    (last.op \in PrivateKeySources /\ last.err = NoErr)
        => PublicKey(last.key) = ScalarBaseMult(SubSeq(last.key, 1, KeySize))

\* the public keys of the generated private keys
GeneratedPublicKeys == {PublicKey(k) : k \in generated}

\* C8: NewPublicKey of the text form of the public key of a generated
\* private key returns no error and the same 32 bytes.
C8_PublicKeyTextRoundTrip ==
    (/\ last.op = "NewPublicKey"
     /\ last.of \in GeneratedPublicKeys
     /\ last.str = PublicKeyString(last.of))
        => /\ last.err = NoErr
           /\ last.key = last.of

\* a public key came back from its text
C8_Witness ==
    /\ last.op = "NewPublicKey"
    /\ last.of \in GeneratedPublicKeys
    /\ last.key = last.of
    /\ last.err = NoErr

\* the all-zero key of the kind the operation returns
ZeroKeyOf(op) == IF op = "NewPrivateKey" THEN ZeroPrivateKey ELSE ZeroPublicKey

\* C9: NewPublicKey and NewPrivateKey return an error when the text is not
\* base58, the error "invalid key" when it decodes to a number of bytes
\* other than 32, and no error when it decodes to 32 bytes; with every
\* error they return the all-zero key.
C9_ParseErrors ==
    last.op \in {"NewPublicKey", "NewPrivateKey"}
        => LET dec == Base58Decode(last.str)
           IN  /\ ~dec.ok => last.err \notin {NoErr, ErrInvalidKey}
               /\ (dec.ok /\ Len(dec.bytes) # KeySize) => last.err = ErrInvalidKey
               /\ (dec.ok /\ Len(dec.bytes) = KeySize) => last.err = NoErr
               /\ last.err # NoErr => last.key = ZeroKeyOf(last.op)

\* the text of 10 bytes is refused for its length
C9_Witness ==
    /\ last.op = "NewPublicKey"
    /\ last.str = TextOf10Bytes
    /\ last.err = ErrInvalidKey
    /\ last.key = ZeroPublicKey

\* C10: every Encrypt call seals with the block it has just read from the
\* random source, and when the call before it had the same sender, peer and
\* plaintext, the two outputs differ, in their nonce already.  (The random
\* source of the model never returns the same block twice.)
C10_NonceFresh ==
    wire.present
        => /\ wire.nonce = RandBlock(NonceSize, drawn)
           /\ wire.before # Nil
                => /\ wire.out # wire.before
                   /\ SubSeq(wire.out, KeySize + 1, KeySize + NonceSize)
                        # SubSeq(wire.before, KeySize + 1, KeySize + NonceSize)

\* two Encrypt calls in a row with the same sender, peer and plaintext
C10_Witness ==
    /\ wire.present
    /\ wire.before # Nil
    /\ Len(wire.before) = Len(wire.out)
    /\ wire.out # wire.before
=============================================================================
